---- MODULE Spec2Model ----
(***************************************************************************)
(* State-machine model of the InferLLM execution core: the operator       *)
(* protocol of src/core/op.h (OpBase, MatMul, AttentionBase, ...) and the  *)
(* module / graph composition of src/core/graph.h.                         *)
(*                                                                         *)
(* Tensor, KvStorage, the operators' execute bodies, the module            *)
(* constructors other than AttentionModule and the Graph driver are        *)
(* declared in these headers but defined elsewhere; they are modelled      *)
(* from the design document (spec.md) and marked so in MODEL_MAP.json.     *)
(***************************************************************************)
EXTENDS Integers, Sequences, FiniteSets, TLC

VARIABLES graph,   \* the graph instance under test (tensors, caches, driver position)
          fresh,   \* a second instance, rebuilt from scratch at every reset_ctx
          calls,   \* number of Graph.execute calls accepted so far (bounded)
          probe    \* one operator on its own, for the per-operator contracts

vars == <<graph, fresh, calls, probe>>

\* ------------------------------------------------------------------ bounds
NLayer   == 2      \* transformer blocks of the modelled graph
NCtx     == 4      \* context length handed to every KvStorage
MaxBatch == 3      \* longest token batch of one Graph.execute call
MaxCalls == 2      \* Graph.execute calls explored per behaviour
MaxDim   == 4      \* largest dimension of a shape handed to a single operator

\* ------------------------------------------------- hyper-parameters (LlmParams)
n_vocab == 100
n_embd  == 16
n_head  == 4
n_mult  == 32
PACK_SIZE == 8

\* ------------------------------------------------------------------ helpers
Min(a, b) == IF a < b THEN a ELSE b

Range(s) == {s[i] : i \in 1..Len(s)}

\* Entry i of a shape vector; reading past its end yields no dimension (0).
At(shape, i) == IF i <= Len(shape) THEN shape[i] ELSE 0

RECURSIVE FlattenFrom(_, _)
FlattenFrom(ss, i) == IF i > Len(ss) THEN <<>> ELSE ss[i] \o FlattenFrom(ss, i + 1)

Flatten(ss) == FlattenFrom(ss, 1)

\* F applied to the value of v: sequential composition  x = v; F(x).
Bind(v, F(_)) == CHOOSE y \in {F(x) : x \in {v}} : TRUE

\* ---------------------------------------------------- operator construction
\* An operator is a record.  Names are sequences of strings, so that the
\* source's  name + ".weight"  is  name \o <<".weight">>.
\* The graph's token input is the only tensor no operator produces.
GraphInput == <<"graph", "input">>

\* OpBase::OpBase stores the input list; the add_user calls it makes are
\* accounted for in OpBase_add_users below.
OpBase(name, kind, inputs) ==
    [name |-> name, kind |-> kind, m_inputs |-> inputs, m_outputs |-> <<>>,
     m_weights |-> <<>>, wshape |-> <<>>, m_weight_packed |-> FALSE,
     m_target_shape |-> <<>>, m_comp_type |-> "Float32", m_fused_weights |-> FALSE]

add_outputs(op, t) == [op EXCEPT !.m_outputs = Append(@, t)]

set_weights(op, ws) == [op EXCEPT !.m_weights = ws]

LayerNorm(name, inputs, embd, mul, bias) ==
    LET w == (IF mul THEN << (name \o <<".weight">>) >> ELSE <<>>)
             \o (IF bias THEN << (name \o <<".bias">>) >> ELSE <<>>)
    IN  [set_weights(add_outputs(OpBase(name, "LayerNorm", inputs), name \o <<"_out0">>), w)
            EXCEPT !.wshape = <<embd>>]

MatMulKind(kind, name, inputs, shape, bias) ==
    LET w == << (name \o <<".weight">>) >> \o (IF bias THEN << (name \o <<".bias">>) >> ELSE <<>>)
    IN  [set_weights(add_outputs(OpBase(name, kind, inputs), name \o <<"_out0">>), w)
            EXCEPT !.wshape = shape]

MatMul(name, inputs, shape, bias) == MatMulKind("MatMul", name, inputs, shape, bias)

MatMulLast(name, inputs, shape, bias) == MatMulKind("MatMulLast", name, inputs, shape, bias)

Elemwise(name, inputs) == add_outputs(OpBase(name, "Elemwise", inputs), name \o <<"_out0">>)

Reshape(name, inputs, shape) ==
    [add_outputs(OpBase(name, "Reshape", inputs), name \o <<"_out0">>)
        EXCEPT !.m_target_shape = shape]

SpliteHalfActiveMul(name, inputs) ==
    add_outputs(OpBase(name, "SpliteHalfActiveMul", inputs), name \o <<"_out0">>)

Embedding(inputs, embd, vocab, name) ==
    [set_weights(add_outputs(OpBase(name, "Embedding", inputs), name \o <<"_out0">>),
                 << (name \o <<".weight">>) >>)
        EXCEPT !.wshape = <<vocab, embd>>]

\* AttentionBase::AttentionBase (the eight-argument form LlamaAttention uses).
AttentionBase(name, inputs, embd, nr_ctx, head, fused_weights, bias) ==
    LET w == IF fused_weights
             THEN << (name \o <<".wqkv.weight">>) >>
                  \o (IF bias THEN << (name \o <<".wqkv.bias">>) >> ELSE <<>>)
             ELSE << (name \o <<".wq.weight">>), (name \o <<".wk.weight">>), (name \o <<".wv.weight">>) >>
                  \o (IF bias THEN << (name \o <<".wq.bias">>), (name \o <<".wk.bias">>),
                                      (name \o <<".wv.bias">>) >> ELSE <<>>)
    IN  [set_weights(add_outputs(OpBase(name, "Attention", inputs), name \o <<"_out">>), w)
            EXCEPT !.wshape = IF fused_weights THEN <<embd * 3, embd>> ELSE <<embd, embd>>,
                   !.m_fused_weights = fused_weights]

\* LlamaAttention::LlamaAttention: the base constructor, then two KvStorage
\* of shape {nr_ctx, embd}; the storages are created in InitGraph.
LlamaAttention(name, inputs, embd, nr_ctx, head, fused_weights, bias) ==
    AttentionBase(name, inputs, embd, nr_ctx, head, fused_weights, bias)

\* ------------------------------------------------------- module construction
OprModuleBase(name, kind) ==
    [name |-> name, kind |-> kind, m_oprs |-> <<>>, m_attention_op |-> <<>>]

\* Mutant of add_opr: the new operator goes to the front.
add_opr_front(module, opr) == [module EXCEPT !.m_oprs = <<opr>> \o @]

\* OprModuleBase::add_opr: the new operator goes to the back of m_oprs.
add_opr(module, opr) == [module EXCEPT !.m_oprs = Append(@, opr)]

\* Graph::add_module / add_one_opr_module: the module goes to the back.
add_module(modules, module) == Append(modules, module)

RECURSIVE AddOprs(_, _, _)
AddOprs(module, oprs, i) ==
    IF i > Len(oprs) THEN module ELSE AddOprs(add_opr(module, oprs[i]), oprs, i + 1)

RECURSIVE AddModules(_, _, _)
AddModules(modules, ms, i) ==
    IF i > Len(ms) THEN modules ELSE AddModules(add_module(modules, ms[i]), ms, i + 1)

\* The operators each module constructor creates, in the order it creates them.
AttentionModuleOprs(input, embd, head, n_ctx, name, fused_weights, bias, same_bias) ==
    LET m_attention_op == LlamaAttention(name, <<input>>, embd, n_ctx, head,
                                         fused_weights, bias)
        v_out     == m_attention_op.m_outputs[1]
        proj_bias == IF same_bias THEN bias ELSE ~bias
    IN  << m_attention_op,
           MatMul(name \o <<".wo">>, <<v_out>>, <<embd, embd>>, proj_bias) >>

AttentionModule(input, embd, head, n_ctx, name, fused_weights, bias, same_bias) ==
    LET oprs == AttentionModuleOprs(input, embd, head, n_ctx, name,
                                    fused_weights, bias, same_bias)
        base == OprModuleBase(name, "AttentionModule")
    IN  add_opr([base EXCEPT !.m_oprs = Append(@, oprs[1]),
                             !.m_attention_op = oprs[1].name], oprs[2])

EmbdModuleOprs(input, embd, vocab, name) == << Embedding(<<input>>, embd, vocab, name) >>

FFNModuleOprs(input, embd, mult, name) ==
    LET w1  == MatMul(name \o <<".w1">>, <<input>>, <<mult, embd>>, FALSE)
        act == Elemwise(name \o <<".act">>, <<w1.m_outputs[1]>>)
    IN  << w1, act, MatMul(name \o <<".w2">>, <<act.m_outputs[1]>>, <<embd, mult>>, FALSE) >>

HeadModuleOprs(input, embd, vocab, name) ==
    LET norm == LayerNorm(name \o <<".norm">>, <<input>>, embd, TRUE, FALSE)
    IN  << norm, MatMulLast(name \o <<".output">>, <<norm.m_outputs[1]>>,
                            <<vocab, embd>>, FALSE) >>

OutOf(oprs) == oprs[Len(oprs)].m_outputs[1]

\* One transformer block fed by tensor x: for each module its kind, its
\* name and the operators its constructor creates.
BlockScript(l, x) ==
    LET L  == <<"layers", ToString(l)>>
        n1 == L \o <<"attention_norm", "_out0">>
        at == L \o <<"attention", ".wo", "_out0">>
        a1 == L \o <<"attention", "add", "_out0">>
        n2 == L \o <<"ffn_norm", "_out0">>
        ff == L \o <<"ffn", ".w2", "_out0">>
    IN  << [kind |-> "OneOpModule", name |-> L \o <<"attention_norm">>,
            oprs |-> << LayerNorm(L \o <<"attention_norm">>, <<x>>, n_embd, TRUE, FALSE) >>],
           [kind |-> "AttentionModule", name |-> L \o <<"attention">>,
            oprs |-> AttentionModuleOprs(n1, n_embd, n_head, NCtx,
                                         L \o <<"attention">>, FALSE, FALSE, TRUE)],
           [kind |-> "OneOpModule", name |-> L \o <<"attention", "add">>,
            oprs |-> << Elemwise(L \o <<"attention", "add">>, <<x, at>>) >>],
           [kind |-> "OneOpModule", name |-> L \o <<"ffn_norm">>,
            oprs |-> << LayerNorm(L \o <<"ffn_norm">>, <<a1>>, n_embd, TRUE, FALSE) >>],
           [kind |-> "FFNModule", name |-> L \o <<"ffn">>,
            oprs |-> FFNModuleOprs(n2, n_embd, n_mult, L \o <<"ffn">>)],
           [kind |-> "OneOpModule", name |-> L \o <<"ffn", "add">>,
            oprs |-> << Elemwise(L \o <<"ffn", "add">>, <<a1, ff>>) >>] >>

\* The tensor block l reads: the embedding's output, or the block before's.
BlockInput(l) ==
    IF l = 1 THEN <<"tok_embeddings", "_out0">>
    ELSE <<"layers", ToString(l - 1), "ffn", "add", "_out0">>

\* construct_llm: embedding, NLayer transformer blocks, output head.
Script ==
    << [kind |-> "EmbdModule", name |-> <<"tok_embeddings">>,
        oprs |-> EmbdModuleOprs(GraphInput, n_embd, n_vocab, <<"tok_embeddings">>)] >>
    \o Flatten([l \in 1..NLayer |-> BlockScript(l, BlockInput(l))])
    \o << [kind |-> "HeadModule", name |-> <<"head">>,
           oprs |-> HeadModuleOprs(BlockInput(NLayer + 1), n_embd, n_vocab, <<"head">>)] >>

\* A module of the script, built by its constructor.
BuildModule(d) ==
    IF d.kind = "AttentionModule"
    THEN LET a == d.oprs[1]
         IN  AttentionModule(a.m_inputs[1], n_embd, n_head, NCtx, d.name,
                             FALSE, FALSE, TRUE)
    ELSE AddOprs(OprModuleBase(d.name, d.kind), d.oprs, 1)

m_modules == AddModules(<<>>, [i \in 1..Len(Script) |-> BuildModule(Script[i])], 1)

\* A second model definition: the same graph, except that the one-operator
\* module in front of the last block's feed-forward holds a Reshape, added
\* with add_one_opr_module<Reshape>.  Its target {2, -1, n_embd} divides the
\* element count of a batch of even length only.
ReshapeAt == <<"layers", ToString(NLayer), "ffn_norm">>

ReshapeModule ==
    add_opr(OprModuleBase(ReshapeAt, "OneOpModule"),
            Reshape(ReshapeAt,
                    << <<"layers", ToString(NLayer), "attention", "add", "_out0">> >>,
                    <<2, -1, n_embd>>))

reshape_modules ==
    Bind(m_modules, LAMBDA ms :
         [i \in 1..Len(ms) |-> IF ms[i].name = ReshapeAt THEN ReshapeModule ELSE ms[i]])

\* The operators in the order their constructors ran.
DeclaredOprs == Flatten([i \in 1..Len(Script) |-> Script[i].oprs])

OprNames == {DeclaredOprs[i].name : i \in 1..Len(DeclaredOprs)}

OprIndex(name) == CHOOSE i \in 1..Len(DeclaredOprs) : DeclaredOprs[i].name = name

IsAttention(op) == op.kind = "Attention"

AttentionNames == {DeclaredOprs[i].name : i \in {j \in 1..Len(DeclaredOprs) :
                                                   IsAttention(DeclaredOprs[j])}}

Weights == UNION {Range(DeclaredOprs[i].m_weights) : i \in 1..Len(DeclaredOprs)}

Outputs == UNION {Range(DeclaredOprs[i].m_outputs) : i \in 1..Len(DeclaredOprs)}

Tensors == {GraphInput} \cup Outputs \cup Weights

m_output == OutOf(DeclaredOprs)

\* ------------------------------------------------------------------ Tensor
\* OpBase::OpBase: one add_user on every entry of the input list.
\* Tensor::add_user
Tensor_add_user(usr, t) == [usr EXCEPT ![t] = @ + 1]

RECURSIVE OpBase_add_users(_, _, _)
OpBase_add_users(usr, inputs, i) ==
    IF i > Len(inputs) THEN usr
    ELSE OpBase_add_users(Tensor_add_user(usr, inputs[i]), inputs, i + 1)

RECURSIVE ConstructAll(_, _, _)
ConstructAll(usr, oprs, i) ==
    IF i > Len(oprs) THEN usr
    ELSE ConstructAll(OpBase_add_users(usr, oprs[i].m_inputs, 1), oprs, i + 1)

\* Tensor::m_usr_count after construction of the whole graph.
m_usr_count == ConstructAll([t \in Tensors |-> 0], DeclaredOprs, 1)

\* Tensor::shared(): weights and the graph input are reused across passes
\* and marked shared; operator outputs are not.
m_shared == [t \in Tensors |-> t \in Weights \cup {GraphInput}]

\* The shape a constructor gives a weight: the weight itself has the
\* operator's weight shape, a bias its leading dimension.
WeightShape(op, w) ==
    IF w[Len(w)] \in {".bias", ".wqkv.bias", ".wq.bias", ".wk.bias", ".wv.bias"}
    THEN <<op.wshape[1]>> ELSE op.wshape

InitShape ==
    [t \in Tensors |->
        IF t \in Weights
        THEN LET op == CHOOSE o \in Range(DeclaredOprs) : t \in Range(o.m_weights)
             IN  WeightShape(op, t)
        ELSE <<>>]

\* Tensor::prepare_data: the buffer is materialized (allocated or read).
Tensor_prepare_data(s, t) == [s EXCEPT !.m_state[t] = "Own"]

\* Mutant of Tensor_recall_data: the shared flag is not consulted.
Tensor_recall_data_ignores_shared(s, t) ==
    [s EXCEPT !.m_state[t] = "OutSide", !.m_data[t] = <<>>]

\* Tensor::recall_data: the buffer is released unless the tensor is shared.
Tensor_recall_data(s, t) ==
    IF m_shared[t] THEN s
    ELSE [s EXCEPT !.m_state[t] = "OutSide", !.m_data[t] = <<>>]

\* Tensor::resume_user_count: back to the declared number of consumers.
Tensor_resume_user_count(s, t) == [s EXCEPT !.m_cur_count[t] = m_usr_count[t]]

\* Tensor::decrease_curr_user_count: one consumer finished; at zero the
\* buffer is recalled.  n_dec counts the calls of the current pass.
Tensor_decrease_curr_user_count(s, t) ==
    Bind([s EXCEPT !.m_cur_count[t] = @ - 1, !.n_dec[t] = @ + 1],
         LAMBDA s1 : IF s1.m_cur_count[t] = 0 THEN Tensor_recall_data(s1, t) ELSE s1)

\* Tensor::set_shape(shape, dtype)
Tensor_set_shape(s, t, shape, dtype) ==
    [s EXCEPT !.m_shape[t] = shape, !.m_dtype[t] = dtype]

\* Tensor::length(): the number of elements, the product of the dimensions.
RECURSIVE ProductFrom(_, _)
ProductFrom(shape, i) == IF i > Len(shape) THEN 1 ELSE shape[i] * ProductFrom(shape, i + 1)

Tensor_length(s, t) == ProductFrom(s.m_shape[t], 1)

\* The loops  for (auto t : ts) t->prepare_data() / recall_data() /
\* decrease_curr_user_count(), from entry i on.
RECURSIVE prepare_all(_, _, _)
prepare_all(s, ts, i) ==
    IF i > Len(ts) THEN s ELSE prepare_all(Tensor_prepare_data(s, ts[i]), ts, i + 1)

RECURSIVE recall_all(_, _, _)
recall_all(s, ts, i) ==
    IF i > Len(ts) THEN s ELSE recall_all(Tensor_recall_data(s, ts[i]), ts, i + 1)

RECURSIVE decrease_all(_, _, _)
decrease_all(s, ts, i) ==
    IF i > Len(ts) THEN s
    ELSE Bind(Tensor_decrease_curr_user_count(s, ts[i]),
              LAMBDA s1 : decrease_all(s1, ts, i + 1))

\* ---------------------------------------------------------------- KvStorage
\* KvStorage(shape): a buffer of shape[1] rows allocated once, length 0.
KvStorage(shape) ==
    [shape |-> shape, m_store_id |-> 0, allocated |-> TRUE,
     rows |-> [i \in 1..shape[1] |-> 0]]

\* KvStorage::prepare_data_with_length: room for len more rows is needed;
\* growth beyond the capacity is fatal.
KvStorage_prepare_data_with_length(s, name, which, len) ==
    IF s.kv[name][which].m_store_id + len > s.kv[name][which].shape[1]
    THEN [s EXCEPT !.pc = "fatal"] ELSE s

\* KvStorage::add_id: the logical length advances by id.
KvStorage_add_id(s, name, which, id) ==
    [s EXCEPT !.kv[name][which].m_store_id = @ + id]

\* KvStorage::reset_id: the logical length is zero again; the buffer stays.
KvStorage_reset_id(s, name, which) ==
    [s EXCEPT !.kv[name][which].m_store_id = 0]

\* KvStorage::recall_data: the cache buffer lives as long as its operator.
KvStorage_recall_data(s, name, which) == s

\* ------------------------------------------------------ operator protocol
\* OpBase::pre_execute
RECURSIVE OpBase_prepare_outputs(_, _, _)
OpBase_prepare_outputs(s, outs, i) ==
    IF i > Len(outs) THEN s
    ELSE Bind(IF s.m_cur_count[outs[i]] = 0 /\ ~m_shared[outs[i]]
              THEN Tensor_prepare_data(Tensor_resume_user_count(s, outs[i]), outs[i])
              ELSE s,
              LAMBDA s1 : OpBase_prepare_outputs(s1, outs, i + 1))

\* Mutant of OpBase_pre_execute: outputs are prepared, their count not resumed.
RECURSIVE OpBase_prepare_outputs_no_resume(_, _, _)
OpBase_prepare_outputs_no_resume(s, outs, i) ==
    IF i > Len(outs) THEN s
    ELSE Bind(IF s.m_cur_count[outs[i]] = 0 /\ ~m_shared[outs[i]]
              THEN Tensor_prepare_data(s, outs[i]) ELSE s,
              LAMBDA s1 : OpBase_prepare_outputs_no_resume(s1, outs, i + 1))

OpBase_pre_execute_no_resume(s, op) ==
    Bind(prepare_all(s, op.m_weights, 1),
         LAMBDA s1 : OpBase_prepare_outputs_no_resume(s1, op.m_outputs, 1))

OpBase_pre_execute(s, op) ==
    Bind(prepare_all(s, op.m_weights, 1),
         LAMBDA s1 : OpBase_prepare_outputs(s1, op.m_outputs, 1))

\* Mutant of OpBase_end_execute: only inputs()[0] is decreased.
OpBase_end_execute_first_input_only(s, op) ==
    Bind(s, LAMBDA s0 : decrease_all(s0, <<op.m_inputs[1]>>, 1))

\* Mutant of OpBase_end_execute: the first input is decreased once more.
OpBase_end_execute_first_input_twice(s, op) ==
    Bind(s, LAMBDA s0 : decrease_all(s0, op.m_inputs \o <<op.m_inputs[1]>>, 1))

\* OpBase::end_execute
OpBase_end_execute(s, op) == Bind(s, LAMBDA s0 : decrease_all(s0, op.m_inputs, 1))

\* Mutant of AttentionBase_pre_execute: the caches are not asked for room.
AttentionBase_pre_execute_no_kv_prepare(s, op) ==
    Bind(prepare_all(s, op.m_weights, 1), LAMBDA s1 :
         IF s1.m_cur_count[op.m_outputs[1]] = 0
         THEN Tensor_resume_user_count(Tensor_prepare_data(s1, op.m_outputs[1]),
                                       op.m_outputs[1])
         ELSE s1)

\* Mutant of AttentionBase_pre_execute: token_len read from shape()[1].
AttentionBase_pre_execute_wrong_dim(s, op) ==
    Bind(At(s.m_shape[op.m_inputs[1]], 2), LAMBDA token_len :
    Bind(prepare_all(s, op.m_weights, 1), LAMBDA s1 :
    Bind(IF s1.m_cur_count[op.m_outputs[1]] = 0
         THEN Tensor_resume_user_count(Tensor_prepare_data(s1, op.m_outputs[1]),
                                       op.m_outputs[1])
         ELSE s1, LAMBDA s2 :
    Bind(KvStorage_prepare_data_with_length(s2, op.name, "k", token_len), LAMBDA s3 :
         IF s3.pc = "fatal" THEN s3
         ELSE KvStorage_prepare_data_with_length(s3, op.name, "v", token_len)))))

\* AttentionBase::pre_execute
AttentionBase_pre_execute(s, op) ==
    Bind(At(s.m_shape[op.m_inputs[1]], 1), LAMBDA token_len :
    Bind(prepare_all(s, op.m_weights, 1), LAMBDA s1 :
    Bind(IF s1.m_cur_count[op.m_outputs[1]] = 0
         THEN Tensor_resume_user_count(Tensor_prepare_data(s1, op.m_outputs[1]),
                                       op.m_outputs[1])
         ELSE s1, LAMBDA s2 :
    Bind(KvStorage_prepare_data_with_length(s2, op.name, "k", token_len), LAMBDA s3 :
         IF s3.pc = "fatal" THEN s3
         ELSE KvStorage_prepare_data_with_length(s3, op.name, "v", token_len)))))

\* Mutant of AttentionBase_end_execute: add_id on the K cache only.
AttentionBase_end_execute_k_only(s, op) ==
    Bind(recall_all(s, op.m_weights, 1), LAMBDA s1 :
    Bind(decrease_all(s1, op.m_inputs, 1), LAMBDA s2 :
    Bind(At(s2.m_shape[op.m_inputs[1]], 1), LAMBDA token_len :
         KvStorage_add_id(s2, op.name, "k", token_len))))

\* Mutant of AttentionBase_end_execute: the V cache advances by shape()[1].
AttentionBase_end_execute_v_wrong_dim(s, op) ==
    Bind(recall_all(s, op.m_weights, 1), LAMBDA s1 :
    Bind(decrease_all(s1, op.m_inputs, 1), LAMBDA s2 :
    Bind(At(s2.m_shape[op.m_inputs[1]], 1), LAMBDA token_len :
         KvStorage_add_id(KvStorage_add_id(s2, op.name, "k", token_len),
                          op.name, "v", At(s2.m_shape[op.m_inputs[1]], 2)))))

\* AttentionBase::end_execute
AttentionBase_end_execute(s, op) ==
    Bind(recall_all(s, op.m_weights, 1), LAMBDA s1 :
    Bind(decrease_all(s1, op.m_inputs, 1), LAMBDA s2 :
    Bind(At(s2.m_shape[op.m_inputs[1]], 1), LAMBDA token_len :
         KvStorage_recall_data(
             KvStorage_recall_data(
                 KvStorage_add_id(KvStorage_add_id(s2, op.name, "k", token_len),
                                  op.name, "v", token_len),
                 op.name, "k"),
             op.name, "v"))))

\* Mutant of AttentionBase_reset_ctx: reset_id on the K cache only.
AttentionBase_reset_ctx_k_only(s, name) == KvStorage_reset_id(s, name, "k")

\* AttentionBase::reset_ctx
AttentionBase_reset_ctx(s, name) ==
    KvStorage_reset_id(KvStorage_reset_id(s, name, "k"), name, "v")

\* Virtual dispatch of the two stages AttentionBase overrides.
pre_execute(s, op) ==
    IF IsAttention(op) THEN AttentionBase_pre_execute(s, op) ELSE OpBase_pre_execute(s, op)

end_execute(s, op) ==
    IF IsAttention(op) THEN AttentionBase_end_execute(s, op) ELSE OpBase_end_execute(s, op)

\* ---------------------------------------------------------- shape deduction
\* OpBase::deduce_output_shape (also LayerNorm, Elemwise, the attentions)
OpBase_deduce_output_shape(s, op) ==
    Tensor_set_shape(s, op.m_outputs[1], s.m_shape[op.m_inputs[1]],
                     s.m_dtype[op.m_inputs[1]])

\* Mutant of MatMul_deduce_output_shape: m_weight_packed is not consulted.
MatMul_deduce_output_shape_stored_rows(s, op) ==
    LET weight_shape == s.m_shape[op.m_weights[1]]
        input_shape  == s.m_shape[op.m_inputs[1]]
        M == IF Len(input_shape) = 2 THEN input_shape[1] ELSE At(input_shape, 2)
        N == weight_shape[1]
    IN  Tensor_set_shape(s, op.m_outputs[1], <<M, N>>, s.m_dtype[op.m_inputs[1]])

\* MatMul::deduce_output_shape
MatMul_deduce_output_shape(s, op) ==
    LET weight_shape == s.m_shape[op.m_weights[1]]
        input_shape  == s.m_shape[op.m_inputs[1]]
        M == IF Len(input_shape) = 2 THEN input_shape[1] ELSE At(input_shape, 2)
        N == IF op.m_weight_packed THEN weight_shape[1] * PACK_SIZE ELSE weight_shape[1]
    IN  Tensor_set_shape(s, op.m_outputs[1], <<M, N>>, s.m_dtype[op.m_inputs[1]])

\* Mutant of MatMulLast_deduce_output_shape: M is taken from the input as
\* MatMul does.
MatMulLast_deduce_output_shape_all_rows(s, op) ==
    LET weight_shape == s.m_shape[op.m_weights[1]]
        input_shape  == s.m_shape[op.m_inputs[1]]
        M == IF Len(input_shape) = 2 THEN input_shape[1] ELSE At(input_shape, 2)
        N == IF op.m_weight_packed THEN weight_shape[1] * PACK_SIZE ELSE weight_shape[1]
    IN  Tensor_set_shape(s, op.m_outputs[1], <<M, N>>, s.m_dtype[op.m_inputs[1]])

\* MatMulLast::deduce_output_shape
MatMulLast_deduce_output_shape(s, op) ==
    LET weight_shape == s.m_shape[op.m_weights[1]]
        N == IF op.m_weight_packed THEN weight_shape[1] * PACK_SIZE ELSE weight_shape[1]
    IN  Tensor_set_shape(s, op.m_outputs[1], <<1, N>>, s.m_dtype[op.m_inputs[1]])

\* Embedding::deduce_output_shape (m_embd is the weight's second dimension)
Embedding_deduce_output_shape(s, op) ==
    LET len == At(s.m_shape[op.m_inputs[1]], 1)
    IN  Tensor_set_shape(s, op.m_outputs[1], <<len, op.wshape[2]>>, op.m_comp_type)

\* INFER_ASSERT(cond, msg) with a false cond: the process stops with msg.
INFER_ASSERT_failed(s) == [s EXCEPT !.pc = "fatal"]

\* Reshape::deduce_output_shape, first loop from entry i on.  acc carries
\* len, count and out_shape; ok turns FALSE at the first failed
\* INFER_ASSERT(len % m_target_shape[i] == 0).
RECURSIVE Reshape_explicit_dims(_, _, _)
Reshape_explicit_dims(target, i, acc) ==
    IF i > Len(target) \/ ~acc.ok THEN acc
    ELSE IF target[i] # -1
         THEN IF acc.len % target[i] # 0 THEN [acc EXCEPT !.ok = FALSE]
              ELSE Reshape_explicit_dims(target, i + 1,
                       [acc EXCEPT !.out_shape[i] = target[i],
                                   !.len = acc.len \div target[i]])
         ELSE Reshape_explicit_dims(target, i + 1, [acc EXCEPT !.count = @ + 1])

\* Mutant of Reshape_deduce_output_shape: the wildcard receives the whole
\* element count instead of what the explicit dimensions leave.
Reshape_deduce_output_shape_wildcard_full(s, op) ==
    LET target == op.m_target_shape
        r == Reshape_explicit_dims(target, 1,
                 [ok |-> TRUE, len |-> Tensor_length(s, op.m_inputs[1]), count |-> 0,
                  out_shape |-> [i \in 1..Len(target) |-> 0]])
    IN  IF ~r.ok THEN INFER_ASSERT_failed(s)
        ELSE IF ~(r.count = 1) THEN INFER_ASSERT_failed(s)
        ELSE Tensor_set_shape(s, op.m_outputs[1],
                 [i \in 1..Len(target) |->
                     IF target[i] = -1 THEN Tensor_length(s, op.m_inputs[1])
                     ELSE r.out_shape[i]],
                 s.m_dtype[op.m_inputs[1]])

\* Mutant of Reshape_deduce_output_shape: any positive number of wildcards
\* passes the count assertion.
Reshape_deduce_output_shape_some_wildcard(s, op) ==
    LET target == op.m_target_shape
        r == Reshape_explicit_dims(target, 1,
                 [ok |-> TRUE, len |-> Tensor_length(s, op.m_inputs[1]), count |-> 0,
                  out_shape |-> [i \in 1..Len(target) |-> 0]])
    IN  IF ~r.ok THEN INFER_ASSERT_failed(s)
        ELSE IF ~(r.count >= 1) THEN INFER_ASSERT_failed(s)
        ELSE Tensor_set_shape(s, op.m_outputs[1],
                 [i \in 1..Len(target) |->
                     IF target[i] = -1 THEN r.len ELSE r.out_shape[i]],
                 s.m_dtype[op.m_inputs[1]])

\* Reshape::deduce_output_shape
Reshape_deduce_output_shape(s, op) ==
    LET target == op.m_target_shape
        r == Reshape_explicit_dims(target, 1,
                 [ok |-> TRUE, len |-> Tensor_length(s, op.m_inputs[1]), count |-> 0,
                  out_shape |-> [i \in 1..Len(target) |-> 0]])
    IN  IF ~r.ok THEN INFER_ASSERT_failed(s)
        ELSE IF ~(r.count = 1) THEN INFER_ASSERT_failed(s)
        ELSE Tensor_set_shape(s, op.m_outputs[1],
                 [i \in 1..Len(target) |->
                     IF target[i] = -1 THEN r.len ELSE r.out_shape[i]],
                 s.m_dtype[op.m_inputs[1]])

\* Mutant of SpliteHalfActiveMul_deduce_output_shape: input_shape is a
\* reference to the input's shape, so the halving is written to the input.
SpliteHalfActiveMul_deduce_output_shape_in_place(s, op) ==
    LET input_shape == s.m_shape[op.m_inputs[1]]
        halved == [input_shape EXCEPT ![2] = input_shape[2] \div 2]
    IN  Tensor_set_shape([s EXCEPT !.m_shape[op.m_inputs[1]] = halved],
                         op.m_outputs[1], halved, s.m_dtype[op.m_inputs[1]])

\* SpliteHalfActiveMul::deduce_output_shape (input_shape[1] is the second
\* dimension)
SpliteHalfActiveMul_deduce_output_shape(s, op) ==
    LET input_shape == s.m_shape[op.m_inputs[1]]
    IN  Tensor_set_shape(s, op.m_outputs[1],
                         [input_shape EXCEPT ![2] = input_shape[2] \div 2],
                         s.m_dtype[op.m_inputs[1]])

deduce_output_shape(s, op) ==
    CASE op.kind = "MatMul"     -> MatMul_deduce_output_shape(s, op)
      [] op.kind = "MatMulLast" -> MatMulLast_deduce_output_shape(s, op)
      [] op.kind = "Embedding"  -> Embedding_deduce_output_shape(s, op)
      [] op.kind = "Reshape"    -> Reshape_deduce_output_shape(s, op)
      [] op.kind = "SpliteHalfActiveMul" -> SpliteHalfActiveMul_deduce_output_shape(s, op)
      [] OTHER                  -> OpBase_deduce_output_shape(s, op)

\* --------------------------------------------------- need_preprocess_weight
\* optimized is what the kernel answers to
\* supported_optimization(KernelOptMethod::MatmulInt4Reorder).
\* OpBase::need_preprocess_weight
OpBase_need_preprocess_weight(s, op, weight, optimized) == FALSE

\* MatMul::need_preprocess_weight
MatMul_need_preprocess_weight(s, op, weight, optimized) ==
    IF weight = op.m_weights[1]
    THEN LET M    == At(s.m_shape[weight], 1)
             int4 == s.m_dtype[weight] = "Int4"
         IN  IF optimized /\ int4 /\ (M % PACK_SIZE = 0) THEN TRUE ELSE FALSE
    ELSE FALSE

\* MatMulLast::need_preprocess_weight
MatMulLast_need_preprocess_weight(s, op, weight, optimized) == FALSE

\* Mutant of AttentionBase_need_preprocess_weight: m_fused_weights is not
\* consulted, the first three weights always count.
AttentionBase_need_preprocess_weight_any_of_three(s, op, weight, optimized) ==
    LET int4 == s.m_dtype[weight] = "Int4"
        M    == At(s.m_shape[weight], 1)
        right_weight == \E i \in 1..Min(3, Len(op.m_weights)) : weight = op.m_weights[i]
    IN  optimized /\ int4 /\ right_weight /\ M % PACK_SIZE = 0

\* AttentionBase::need_preprocess_weight
AttentionBase_need_preprocess_weight(s, op, weight, optimized) ==
    LET int4 == s.m_dtype[weight] = "Int4"
        M    == At(s.m_shape[weight], 1)
        right_weight ==
            IF op.m_fused_weights THEN weight = op.m_weights[1]
            ELSE \/ weight = op.m_weights[1]
                 \/ weight = op.m_weights[2]
                 \/ weight = op.m_weights[3]
    IN  optimized /\ int4 /\ right_weight /\ M % PACK_SIZE = 0

need_preprocess_weight(s, op, weight, optimized) ==
    CASE op.kind = "MatMul"     -> MatMul_need_preprocess_weight(s, op, weight, optimized)
      [] op.kind = "MatMulLast" -> MatMulLast_need_preprocess_weight(s, op, weight, optimized)
      [] op.kind = "Attention"  -> AttentionBase_need_preprocess_weight(s, op, weight, optimized)
      [] OTHER                  -> OpBase_need_preprocess_weight(s, op, weight, optimized)

\* ------------------------------------------------------ workspace sizing
Max(a, b) == IF a > b THEN a ELSE b

\* OpBase::get_workspace_in_byte
OpBase_get_workspace_in_byte(s, op) == 0

\* MatMul::get_workspace_in_byte: the input rows, converted to float.
MatMul_get_workspace_in_byte(s, op) ==
    At(s.m_shape[op.m_inputs[1]], 1) * At(s.m_shape[op.m_weights[1]], 2) * 4

\* MatMulLast::get_workspace_in_byte: the last input row, converted to float.
MatMulLast_get_workspace_in_byte(s, op) == At(s.m_shape[op.m_weights[1]], 2) * 4

\* AttentionBase::get_workspace_in_byte: q, k and v of the new tokens and
\* one row of scores per head and token.
AttentionBase_get_workspace_in_byte(s, op) ==
    LET token_len == At(s.m_shape[op.m_inputs[1]], 1)
    IN  (3 * token_len * op.wshape[2] + n_head * token_len * NCtx) * 4

get_workspace_in_byte(s, op) ==
    CASE op.kind = "MatMul"     -> MatMul_get_workspace_in_byte(s, op)
      [] op.kind = "MatMulLast" -> MatMulLast_get_workspace_in_byte(s, op)
      [] op.kind = "Attention"  -> AttentionBase_get_workspace_in_byte(s, op)
      [] OTHER                  -> OpBase_get_workspace_in_byte(s, op)

\* Mutant of OprModuleBase_get_workspace_in_byte: the need of the last
\* operator replaces the running maximum.
RECURSIVE OprModuleBase_get_workspace_in_byte_last(_, _, _, _)
OprModuleBase_get_workspace_in_byte_last(s, oprs, i, max_workspace) ==
    IF i > Len(oprs) THEN max_workspace
    ELSE OprModuleBase_get_workspace_in_byte_last(
             s, oprs, i + 1, get_workspace_in_byte(s, oprs[i]))

\* OprModuleBase::get_workspace_in_byte: the maximum over the module's
\* operators, from operator i on.
RECURSIVE OprModuleBase_get_workspace_in_byte(_, _, _, _)
OprModuleBase_get_workspace_in_byte(s, oprs, i, max_workspace) ==
    IF i > Len(oprs) THEN max_workspace
    ELSE Bind(Max(max_workspace, get_workspace_in_byte(s, oprs[i])), LAMBDA m :
              OprModuleBase_get_workspace_in_byte(s, oprs, i + 1, m))

\* Graph::get_workspace_in_byte: the maximum over the modules, from module
\* i on.
RECURSIVE Graph_get_workspace_in_byte(_, _, _, _)
Graph_get_workspace_in_byte(s, modules, i, max_workspace) ==
    IF i > Len(modules) THEN max_workspace
    ELSE Bind(Max(max_workspace,
                  OprModuleBase_get_workspace_in_byte(s, modules[i].m_oprs, 1, 0)),
              LAMBDA m : Graph_get_workspace_in_byte(s, modules, i + 1, m))

\* ------------------------------------------------------------------ execute
\* The numeric kernels are external.  A tensor's contents are modelled as one
\* digest per row; every kernel mixes its operator's identity and the rows it
\* reads into the rows it writes, so that equal outputs mean equal inputs.
Mix(x, c) == (x * 31 + c) % 65521

Unary(rows, salt) == [i \in 1..Len(rows) |-> Mix(rows[i], salt)]

Binary(a, b, salt) ==
    [i \in 1..Min(Len(a), Len(b)) |-> Mix(Mix(a[i], b[i]), salt)]

\* Attention of one query row over cache positions 1..p.
RECURSIVE Attend(_, _, _, _)
Attend(krows, vrows, p, acc) ==
    IF p = 0 THEN acc
    ELSE Mix(Attend(krows, vrows, p - 1, acc), Mix(krows[p], vrows[p]))

\* AttentionBase::execute (LlamaAttention): the new rows' K and V go to the
\* cache at its current length, then every new row attends to the cache
\* from its start to the row's own position.
KRows(st, in, nr_past, salt) ==
    [p \in 1..st.shape[1] |->
        IF p > st.m_store_id /\ p <= st.m_store_id + Len(in)
        THEN Mix(Mix(in[p - st.m_store_id], nr_past + (p - st.m_store_id)), salt)
        ELSE st.rows[p]]

VRows(st, in, salt) ==
    [p \in 1..st.shape[1] |->
        IF p > st.m_store_id /\ p <= st.m_store_id + Len(in)
        THEN Mix(in[p - st.m_store_id], salt + 1)
        ELSE st.rows[p]]

\* Mutant of AttentionBase_execute: every new row attends to the whole
\* buffer of the cache.
AttentionBase_execute_whole_buffer(s, op, nr_past) ==
    Bind(s.m_data[op.m_inputs[1]], LAMBDA in :
    Bind(OprIndex(op.name), LAMBDA salt :
    Bind(KRows(s.kv[op.name].k, in, nr_past, salt), LAMBDA krows :
    Bind(VRows(s.kv[op.name].v, in, salt), LAMBDA vrows :
         [s EXCEPT !.kv[op.name].k.rows = krows,
                   !.kv[op.name].v.rows = vrows,
                   !.m_data[op.m_outputs[1]] =
                       [i \in 1..Len(in) |->
                           Attend(krows, vrows, Len(krows), Mix(in[i], salt))]]))))

AttentionBase_execute(s, op, nr_past) ==
    Bind(s.m_data[op.m_inputs[1]], LAMBDA in :
    Bind(OprIndex(op.name), LAMBDA salt :
    Bind(KRows(s.kv[op.name].k, in, nr_past, salt), LAMBDA krows :
    Bind(VRows(s.kv[op.name].v, in, salt), LAMBDA vrows :
         [s EXCEPT !.kv[op.name].k.rows = krows,
                   !.kv[op.name].v.rows = vrows,
                   !.m_data[op.m_outputs[1]] =
                       [i \in 1..Len(in) |->
                           Attend(krows, vrows,
                                  Min(s.kv[op.name].k.m_store_id + i, Len(krows)),
                                  Mix(in[i], salt))]]))))

\* execute of the other operators.
OpBase_execute(s, op, nr_past) ==
    Bind(s.m_data[op.m_inputs[1]], LAMBDA in :
    Bind(OprIndex(op.name), LAMBDA salt :
         [s EXCEPT !.m_data[op.m_outputs[1]] =
             CASE op.kind = "MatMulLast" ->
                    IF in = <<>> THEN <<>> ELSE << Mix(in[Len(in)], salt) >>
               [] Len(op.m_inputs) = 2 ->
                    Binary(in, s.m_data[op.m_inputs[2]], salt)
               [] OTHER -> Unary(in, salt)]))

execute(s, op, nr_past) ==
    IF IsAttention(op) THEN AttentionBase_execute(s, op, nr_past)
    ELSE OpBase_execute(s, op, nr_past)

\* ------------------------------------------------------------- graph driver
n_ctx == NCtx

InitGraph ==
    [life        |-> "uninitialized",
     net         |-> "llm",
     m_shape     |-> InitShape,
     m_dtype     |-> [t \in Tensors |-> IF t = GraphInput THEN "Int32" ELSE "Float32"],
     m_cur_count |-> [t \in Tensors |-> 0],
     m_state     |-> [t \in Tensors |-> "OutSide"],
     m_data      |-> [t \in Tensors |-> <<>>],
     n_dec       |-> [t \in Tensors |-> 0],
     kv          |-> [a \in AttentionNames |->
                        [k |-> KvStorage(<<n_ctx, n_embd>>),
                         v |-> KvStorage(<<n_ctx, n_embd>>)]],
     stage       |-> [o \in OprNames |-> "none"],
     order       |-> <<>>,
     pc          |-> "idle",
     mi          |-> 1,
     oi          |-> 1,
     in_token    |-> <<>>,
     nr_past     |-> 0,
     logist      |-> <<>>,
     fed         |-> 0,
     passes      |-> 0,
     honest      |-> TRUE]

\* Graph::m_modules of the instance.
ModulesOf(s) == IF s.net = "reshape" THEN reshape_modules ELSE m_modules

CurOpr(s) == ModulesOf(s)[s.mi].m_oprs[s.oi]

\* Graph::load: the weight file is read and every declared weight resolves.
DoLoad(s) == [s EXCEPT !.life = "weights-loaded"]

\* The workspace size is computed: the graph is ready.
DoReady(s) == [s EXCEPT !.life = "ready"]

\* Mutant of Graph_execute_accepted: execute is accepted in every state.
Graph_execute_accepted_always(s) == TRUE

\* Graph::execute is accepted once the graph is ready.
Graph_execute_accepted(s) == s.life \in {"ready", "executing"}

\* Graph::execute, entry: the input tensor takes the batch's shape and the
\* context-length precondition is checked.
DoCall(s, in_token, nr_past) ==
    [s EXCEPT !.life = "executing",
              !.in_token = in_token, !.nr_past = nr_past,
              !.n_dec = [t \in Tensors |-> 0],
              !.stage = [o \in OprNames |-> "none"],
              !.order = <<>>,
              !.honest = (nr_past = s.fed),
              !.m_shape[GraphInput] = <<Len(in_token)>>,
              !.mi = 1, !.oi = 1,
              !.pc = IF nr_past + Len(in_token) > n_ctx THEN "fatal" ELSE "deduce"]

\* OprModuleBase::deduce_output_shape: every operator of the module, in order.
RECURSIVE OprModuleBase_deduce_output_shape(_, _, _)
OprModuleBase_deduce_output_shape(s, oprs, i) ==
    IF i > Len(oprs) \/ s.pc = "fatal" THEN s
    ELSE Bind(deduce_output_shape(s, oprs[i]), LAMBDA s1 :
              OprModuleBase_deduce_output_shape(
                  [s1 EXCEPT !.stage[oprs[i].name] = "deduced"], oprs, i + 1))

\* Mutant of DoDeduce: the module's first output is materialized before
\* the module's shapes are deduced.
DoDeduce_allocating(s) ==
    Bind(OprModuleBase_deduce_output_shape(
             Tensor_prepare_data(s, ModulesOf(s)[s.mi].m_oprs[1].m_outputs[1]),
             ModulesOf(s)[s.mi].m_oprs, 1), LAMBDA s1 :
         IF s1.pc = "fatal" THEN s1
         ELSE IF s.mi < Len(ModulesOf(s)) THEN [s1 EXCEPT !.mi = s.mi + 1]
         ELSE [s1 EXCEPT !.pc = "feed"])

\* Graph::execute, shape deduction: one module at a time, before any
\* operator runs.
DoDeduce(s) ==
    Bind(OprModuleBase_deduce_output_shape(s, ModulesOf(s)[s.mi].m_oprs, 1), LAMBDA s1 :
         IF s1.pc = "fatal" THEN s1
         ELSE IF s.mi < Len(ModulesOf(s)) THEN [s1 EXCEPT !.mi = s.mi + 1]
         ELSE [s1 EXCEPT !.pc = "feed"])

\* Graph::execute, after shape deduction: the token ids go into the input
\* tensor, whose pending-consumer count starts afresh.
DoFeed(s) ==
    [Tensor_prepare_data(Tensor_resume_user_count(s, GraphInput), GraphInput)
        EXCEPT !.m_data[GraphInput] = s.in_token, !.pc = "pre", !.mi = 1, !.oi = 1]

\* OprModuleBase::execute, one operator at a time: pre_execute, execute,
\* end_execute, then the next operator of the module, then the next module.
\* Mutant of OprModuleBase_execute_pre: pre_execute is not called.
OprModuleBase_execute_skips_pre(s, op) == [s EXCEPT !.pc = "exec"]

OprModuleBase_execute_pre(s, op) ==
    Bind(pre_execute([s EXCEPT !.stage[op.name] = "pre",
                               !.order = Append(@, op.name)], op), LAMBDA s1 :
         IF s1.pc = "fatal" THEN s1 ELSE [s1 EXCEPT !.pc = "exec"])

OprModuleBase_execute_run(s, op) ==
    Bind(execute([s EXCEPT !.stage[op.name] = "exec"], op, s.nr_past), LAMBDA s1 :
         IF s1.pc = "fatal" THEN s1 ELSE [s1 EXCEPT !.pc = "end"])

OprModuleBase_execute_end(s, op) ==
    Bind(end_execute([s EXCEPT !.stage[op.name] = "end"], op), LAMBDA s1 :
         IF s1.pc = "fatal" THEN s1
         ELSE IF s.oi < Len(ModulesOf(s)[s.mi].m_oprs)
              THEN [s1 EXCEPT !.pc = "pre", !.oi = s.oi + 1]
         ELSE IF s.mi < Len(ModulesOf(s))
              THEN [s1 EXCEPT !.pc = "pre", !.mi = s.mi + 1, !.oi = 1]
         ELSE [s1 EXCEPT !.pc = "finish"])

DoPre(s) == OprModuleBase_execute_pre(s, CurOpr(s))

DoExec(s) == OprModuleBase_execute_run(s, CurOpr(s))

DoEnd(s) == OprModuleBase_execute_end(s, CurOpr(s))

\* Graph::execute, return: the logits of the last position go to the caller.
DoFinish(s) ==
    [s EXCEPT !.logist = s.m_data[m_output],
              !.fed = @ + Len(s.in_token),
              !.passes = @ + 1,
              !.pc = "idle"]

\* OprModuleBase::reset_ctx is empty; AttentionModule::reset_ctx forwards
\* to its attention operator.
OprModuleBase_reset_ctx(s, module) == s

\* Mutant of AttentionModule_reset_ctx: nothing is forwarded.
AttentionModule_reset_ctx_noop(s, module) == s

AttentionModule_reset_ctx(s, module) == AttentionBase_reset_ctx(s, module.m_attention_op)

reset_ctx(s, module) ==
    IF module.kind = "AttentionModule" THEN AttentionModule_reset_ctx(s, module)
    ELSE OprModuleBase_reset_ctx(s, module)

\* Graph::reset_ctx: every module's reset_ctx, in order.
RECURSIVE Graph_reset_ctx(_, _, _)
Graph_reset_ctx(s, modules, i) ==
    IF i > Len(modules) THEN s
    ELSE Graph_reset_ctx(reset_ctx(s, modules[i]), modules, i + 1)

DoReset(s) == [Graph_reset_ctx(s, ModulesOf(s), 1) EXCEPT !.fed = 0, !.passes = 0]

\* One step of an instance from wherever it is.
Step(s) ==
    CASE s.pc = "deduce" -> DoDeduce(s)
      [] s.pc = "feed"   -> DoFeed(s)
      [] s.pc = "pre"    -> DoPre(s)
      [] s.pc = "exec"   -> DoExec(s)
      [] s.pc = "end"    -> DoEnd(s)
      [] s.pc = "finish" -> DoFinish(s)
      [] OTHER           -> s

\* ------------------------------------------------------------------ actions
\* The token batches a caller passes: the ids 1..n, for every length n.
Batches == {[i \in 1..n |-> i] : n \in 1..MaxBatch}

\* The probe is not used while a graph runs.
NoProbe == [phase |-> "none"]

Init == graph = InitGraph /\ fresh = InitGraph /\ calls = 0 /\ probe = NoProbe

\* The weights are loaded.
Graph_load ==
    /\ graph.life = "uninitialized"
    /\ graph' = DoLoad(graph) /\ fresh' = DoLoad(fresh)
    /\ UNCHANGED <<calls, probe>>

\* The workspace is sized; the graph is ready.
Graph_ready ==
    /\ graph.life = "weights-loaded"
    /\ graph' = DoReady(graph) /\ fresh' = DoReady(fresh)
    /\ UNCHANGED <<calls, probe>>

\* A caller invokes Graph.execute on both instances.
Graph_execute ==
    /\ graph.pc = "idle"
    /\ Graph_execute_accepted(graph)
    /\ calls < MaxCalls
    /\ \E in_token \in Batches, nr_past \in 0..n_ctx :
          /\ graph' = DoCall(graph, in_token, nr_past)
          /\ fresh' = IF fresh.pc = "idle" THEN DoCall(fresh, in_token, nr_past)
                      ELSE fresh
    /\ calls' = calls + 1
    /\ UNCHANGED probe

Graph_deduce ==
    /\ graph.pc = "deduce"
    /\ graph' = DoDeduce(graph) /\ fresh' = Step(fresh) /\ UNCHANGED <<calls, probe>>

Graph_feed_input ==
    /\ graph.pc = "feed"
    /\ graph' = DoFeed(graph) /\ fresh' = Step(fresh) /\ UNCHANGED <<calls, probe>>

Opr_pre_execute ==
    /\ graph.pc = "pre"
    /\ graph' = DoPre(graph) /\ fresh' = Step(fresh) /\ UNCHANGED <<calls, probe>>

Opr_execute ==
    /\ graph.pc = "exec"
    /\ graph' = DoExec(graph) /\ fresh' = Step(fresh) /\ UNCHANGED <<calls, probe>>

Opr_end_execute ==
    /\ graph.pc = "end"
    /\ graph' = DoEnd(graph) /\ fresh' = Step(fresh) /\ UNCHANGED <<calls, probe>>

Graph_execute_return ==
    /\ graph.pc = "finish"
    /\ graph' = DoFinish(graph) /\ fresh' = Step(fresh) /\ UNCHANGED <<calls, probe>>

\* The caller resets the context between passes; the comparison instance
\* is built anew.
Graph_reset ==
    /\ graph.pc = "idle"
    /\ graph' = DoReset(graph)
    /\ fresh' = [InitGraph EXCEPT !.net = graph.net, !.life = graph.life]
    /\ UNCHANGED <<calls, probe>>

Next ==
    \/ Graph_load
    \/ Graph_ready
    \/ Graph_execute
    \/ Graph_deduce
    \/ Graph_feed_input
    \/ Opr_pre_execute
    \/ Opr_execute
    \/ Opr_end_execute
    \/ Graph_execute_return
    \/ Graph_reset

Spec == Init /\ [][Next]_vars

\* The same driver over a graph one of whose operators is a Reshape into
\* two equal parts: its shape deduction fails on a batch of odd length.
InitR ==
    /\ graph = [InitGraph EXCEPT !.net = "reshape"]
    /\ fresh = [InitGraph EXCEPT !.net = "reshape"]
    /\ calls = 0
    /\ probe = NoProbe

SpecR == InitR /\ [][Next]_vars

\* ------------------------------------------------- one operator on its own
\* A single operator is constructed over an input tensor of a chosen shape
\* and its deduce_output_shape is called (twice), or its
\* need_preprocess_weight is asked about one tensor.
ProbeIn    == <<"x">>
ProbeName  == <<"op">>
ProbeOther == <<"other", ".weight">>

\* Shapes of rank 1 to 3.
Shapes  == UNION {[1..r -> 1..MaxDim] : r \in 1..3}

\* Reshape targets of rank 1 to 3: explicit dimensions and the wildcard -1.
Targets == UNION {[1..r -> {-1} \cup (1..MaxDim)] : r \in 1..3}

\* Leading dimensions of the weights: multiples of PACK_SIZE and one that is not.
WeightRows == {PACK_SIZE, PACK_SIZE + MaxDim, 2 * PACK_SIZE}

\* MatMul::preprocess_weight has run: the weight is stored packed.
Packed(op) == [op EXCEPT !.m_weight_packed = TRUE]

\* The operators whose input must have a second dimension
\* (input_shape[1] is read), and the shapes each kind is given.
NeedsRank2 == {"MatMul", "SpliteHalfActiveMul", "Attention"}

ShapesFor(op) == IF op.kind \in NeedsRank2 THEN {sh \in Shapes : Len(sh) >= 2} ELSE Shapes

ProbeOps ==
    {LayerNorm(ProbeName, <<ProbeIn>>, PACK_SIZE, TRUE, bias) : bias \in BOOLEAN}
    \cup {Elemwise(ProbeName, <<ProbeIn>>), SpliteHalfActiveMul(ProbeName, <<ProbeIn>>)}
    \cup {[Embedding(<<ProbeIn>>, PACK_SIZE, n_vocab, ProbeName) EXCEPT !.m_comp_type = c] :
              c \in {"Float32", "Float16"}}
    \cup {AttentionBase(ProbeName, <<ProbeIn>>, embd, NCtx, n_head, fused, bias) :
              embd \in {PACK_SIZE, PACK_SIZE + MaxDim}, fused \in BOOLEAN, bias \in BOOLEAN}
    \cup {MatMul(ProbeName, <<ProbeIn>>, <<N, PACK_SIZE>>, bias) :
              N \in WeightRows, bias \in BOOLEAN}
    \cup {Packed(MatMul(ProbeName, <<ProbeIn>>, <<N, PACK_SIZE>>, bias)) :
              N \in {n \in WeightRows : n % PACK_SIZE = 0}, bias \in BOOLEAN}
    \cup {MatMulLast(ProbeName, <<ProbeIn>>, <<N, PACK_SIZE>>, bias) :
              N \in WeightRows, bias \in BOOLEAN}

ReshapeOps == {Reshape(ProbeName, <<ProbeIn>>, target) : target \in Targets}

ProbeTensors(op) == {ProbeIn, ProbeOther} \cup Range(op.m_outputs) \cup Range(op.m_weights)

\* The shape a weight is stored with: a packed weight has a PACK_SIZE-th
\* of its rows.
StoredShape(op, w) ==
    IF op.m_weight_packed /\ w = op.m_weights[1]
    THEN <<op.wshape[1] \div PACK_SIZE, op.wshape[2]>>
    ELSE WeightShape(op, w)

\* The tensors around the operator after its construction.
ProbeGraph(op, in_shape, in_dtype, w_dtype) ==
    [m_shape     |-> [t \in ProbeTensors(op) |->
                        IF t = ProbeIn THEN in_shape
                        ELSE IF t = ProbeOther THEN <<PACK_SIZE, PACK_SIZE>>
                        ELSE IF t \in Range(op.m_weights) THEN StoredShape(op, t)
                        ELSE <<>>],
     m_dtype     |-> [t \in ProbeTensors(op) |->
                        IF t = ProbeIn THEN in_dtype
                        ELSE IF t = ProbeOther THEN "Int4"
                        ELSE IF t \in Range(op.m_weights) THEN w_dtype
                        ELSE "Float32"],
     m_cur_count |-> [t \in ProbeTensors(op) |-> 0],
     m_state     |-> [t \in ProbeTensors(op) |-> "OutSide"],
     m_data      |-> [t \in ProbeTensors(op) |-> <<>>],
     pc          |-> "idle"]

NewProbe(phase, op, s) ==
    [phase |-> phase, op |-> op, s |-> s, before |-> s,
     asked |-> <<>>, optimized |-> FALSE, answer |-> FALSE]

InDType(op) == IF op.kind = "Embedding" THEN "Int32" ELSE "Float16"

\* Probes of deduce_output_shape: every operator over every shape.
DeduceProbes ==
    {NewProbe("new", c[1], ProbeGraph(c[1], c[2], InDType(c[1]),
                                      IF c[1].m_weight_packed THEN "Int4" ELSE "Float32")) :
        c \in {d \in (ProbeOps \cup ReshapeOps) \X Shapes : d[2] \in ShapesFor(d[1])}}

\* Probes of need_preprocess_weight: every operator with weights of every
\* dtype (a packed weight was Int4), and one Reshape.
QueryProbes ==
    {NewProbe("query", c[1], ProbeGraph(c[1], <<MaxDim, MaxDim>>, InDType(c[1]), c[2])) :
        c \in {d \in (ProbeOps \cup {Reshape(ProbeName, <<ProbeIn>>, <<-1, MaxDim>>)})
                       \X {"Int4", "Int8", "Float32"} :
                  d[1].m_weight_packed => d[2] = "Int4"}}

InitOp ==
    /\ graph = InitGraph /\ fresh = InitGraph /\ calls = 0
    /\ probe \in DeduceProbes \cup QueryProbes

\* deduce_output_shape is called, for the first or the second time.
Op_deduce_output_shape ==
    /\ probe.phase \in {"new", "once"}
    /\ probe.s.pc # "fatal"
    /\ probe' = [probe EXCEPT !.phase  = IF probe.phase = "new" THEN "once" ELSE "twice",
                               !.before = probe.s,
                               !.s      = deduce_output_shape(probe.s, probe.op)]
    /\ UNCHANGED <<graph, fresh, calls>>

\* need_preprocess_weight is asked about one of the tensors.
Op_need_preprocess_weight ==
    /\ probe.phase = "query"
    /\ \E weight \in (ProbeTensors(probe.op) \ Range(probe.op.m_outputs)),
          optimized \in BOOLEAN :
          probe' = [probe EXCEPT !.phase = "asked", !.asked = weight,
                                 !.optimized = optimized,
                                 !.answer = need_preprocess_weight(probe.s, probe.op,
                                                                   weight, optimized)]
    /\ UNCHANGED <<graph, fresh, calls>>

NextOp == Op_deduce_output_shape \/ Op_need_preprocess_weight

SpecOp == InitOp /\ [][NextOp]_vars

\* ------------------------------------------- multi-query-group attention
\* The widths the constructors compute are uint32_t.  A uint32_t is kept as
\* two limbs of 16 bits, low limb first, so that arithmetic is modulo 2^32;
\* the same operators on four limbs are exact for every value met here.
Word == 65536

UInt32Limbs == 2

ExactLimbs == 4

\* The limbs of a number below 2^31.
ToLimbs(x, n) ==
    [i \in 1..n |-> IF i = 1 THEN x % Word ELSE IF i = 2 THEN x \div Word ELSE 0]

\* Conversion to a wider type (uint32_t to size_t).
Widen(a, n) == [i \in 1..n |-> IF i <= Len(a) THEN a[i] ELSE 0]

\* a * k, for a factor k below 2^15, modulo Word^Len(a).
RECURSIVE MulFrom(_, _, _, _)
MulFrom(a, k, i, carry) ==
    IF i > Len(a) THEN <<>>
    ELSE << (a[i] * k + carry) % Word >>
         \o MulFrom(a, k, i + 1, (a[i] * k + carry) \div Word)

Mul(a, k) == MulFrom(a, k, 1, 0)

\* a + b modulo Word^Len(a).
RECURSIVE AddFrom(_, _, _, _)
AddFrom(a, b, i, carry) ==
    IF i > Len(a) THEN <<>>
    ELSE << (a[i] + b[i] + carry) % Word >>
         \o AddFrom(a, b, i + 1, (a[i] + b[i] + carry) \div Word)

Add(a, b) == AddFrom(a, b, 1, 0)

\* a / d and a % d for a divisor d below 2^15, from the high limb down.
RECURSIVE DivFrom(_, _, _, _)
DivFrom(a, d, i, r) ==
    IF i = 0 THEN <<>>
    ELSE DivFrom(a, d, i - 1, (r * Word + a[i]) % d) \o << (r * Word + a[i]) \div d >>

Div(a, d) == DivFrom(a, d, Len(a), 0)

RECURSIVE ModFrom(_, _, _, _)
ModFrom(a, d, i, r) ==
    IF i = 0 THEN r ELSE ModFrom(a, d, i - 1, (r * Word + a[i]) % d)

Mod(a, d) == ModFrom(a, d, Len(a), 0)

\* Glm2MultiQueryAttention::Glm2MultiQueryAttention: the assertion on
\* m_fused_weights, the fused weight of weight_dim0 rows, the two KvStorage
\* of width sub_dim * query_group_num.  The vector<size_t> shapes take the
\* uint32_t values widened.
Glm2MultiQueryAttention(name, inputs, embd, query_group_num, nr_ctx, head, fused_weights, bias) ==
    IF ~fused_weights THEN [pc |-> "fatal"]
    ELSE LET weight_dim0 == Add(embd, Div(Mul(embd, query_group_num * 2), head))
             sub_dim     == Div(embd, head)
         IN  [pc        |-> "idle",
              name      |-> name,
              m_inputs  |-> inputs,
              m_outputs |-> << name \o <<"_out">> >>,
              m_weights |-> << name \o <<".wqkv.weight">> >>
                            \o (IF bias THEN << name \o <<".wqkv.bias">> >> ELSE <<>>),
              wshape    |-> << Widen(weight_dim0, ExactLimbs), Widen(embd, ExactLimbs) >>,
              m_kstorage |-> << ToLimbs(nr_ctx, ExactLimbs),
                                Widen(Mul(sub_dim, query_group_num), ExactLimbs) >>,
              m_vstorage |-> << ToLimbs(nr_ctx, ExactLimbs),
                                Widen(Mul(sub_dim, query_group_num), ExactLimbs) >>]

\* AttentionModule<Glm2MultiQueryAttention>::AttentionModule: the assertion
\* that head divides embd, then the attention operator, which receives n_rot
\* in the place of query_group_num.
AttentionModule_Glm2(input, embd, head, n_rot, n_ctx_, name, fused_weights, bias) ==
    IF Mod(embd, head) # 0 THEN [pc |-> "fatal"]
    ELSE Glm2MultiQueryAttention(name, <<input>>, embd, n_rot, n_ctx_, head,
                                 fused_weights, bias)

\* Embedding widths, head counts and group counts of constructed modules:
\* small ones, those of a published model (4096, 32, 2), and widths near the
\* top of uint32_t.
Embds ==
    {ToLimbs(e, UInt32Limbs) : e \in {PACK_SIZE, PACK_SIZE + MaxDim, 4096}}
    \cup {<<0, 4>>, <<0, 16384>>, <<0, 32768>>}

Heads == {1, 2, MaxDim, 32, 8192}

Groups == {1, 2, 8192}

ModuleProbes ==
    {[phase |-> "module", embd |-> c[1], head |-> c[2], n_rot |-> c[3],
      fused_weights |-> c[4], bias |-> c[5]] :
        c \in {d \in Embds \X Heads \X Groups \X BOOLEAN \X BOOLEAN : d[3] <= d[2]}}

InitModule ==
    /\ graph = InitGraph /\ fresh = InitGraph /\ calls = 0
    /\ probe \in ModuleProbes

\* The module is constructed.
Module_construct ==
    /\ probe.phase = "module"
    /\ probe' = [phase |-> "built", embd |-> probe.embd, head |-> probe.head,
                 n_rot |-> probe.n_rot, fused_weights |-> probe.fused_weights,
                 bias |-> probe.bias,
                 op |-> AttentionModule_Glm2(ProbeIn, probe.embd, probe.head, probe.n_rot,
                                             NCtx, ProbeName, probe.fused_weights,
                                             probe.bias)]
    /\ UNCHANGED <<graph, fresh, calls>>

NextModule == Module_construct

SpecModule == InitModule /\ [][NextModule]_vars

\* ------------------------------------------------------------------- claims
DeclaredNames == [i \in 1..Len(DeclaredOprs) |-> DeclaredOprs[i].name]

InPass(s) == s.pc \notin {"idle", "fatal"}

\* C1: after a complete pass (every operator went through pre_execute,
\* execute and end_execute), every tensor has received as many
\* decrease_curr_user_count calls in the pass as add_user calls at
\* construction, and its current user count is zero.
C1_UserCountBalanced ==
    graph.pc = "finish" =>
        \A t \in Tensors : /\ graph.n_dec[t] = m_usr_count[t]
                           /\ graph.m_cur_count[t] = 0

\* A second pass has completed and a tensor with two consumers was
\* decreased twice in it.
W1_PassCompleted ==
    /\ graph.pc = "finish" /\ graph.passes = 1
    /\ \E t \in Tensors : m_usr_count[t] = 2 /\ graph.n_dec[t] = 2

\* C2: in every reachable state every tensor's current user count lies
\* between 0 and its declared number of consumers, the graph input included.
C2_UserCountInRange ==
    \A t \in Tensors : /\ 0 <= graph.m_cur_count[t]
                       /\ graph.m_cur_count[t] <= m_usr_count[t]

\* In a second pass the graph input has been consumed again while a tensor
\* with two consumers is at its declared count.
W2_InputConsumedAgain ==
    /\ graph.passes = 1 /\ InPass(graph)
    /\ graph.n_dec[GraphInput] = 1 /\ graph.m_cur_count[GraphInput] = 0
    /\ \E t \in Tensors : m_usr_count[t] = 2 /\ graph.m_cur_count[t] = 2

\* C3: the K and the V cache length of every attention operator equal the
\* sum of the batch sizes of the passes since the last reset (fed), plus the
\* current batch once the operator's end_execute of the running pass is
\* done; a completed pass that was called with nr_past equal to that sum
\* leaves the length at nr_past + batch size.
C3_CacheLengthIsSum ==
    /\ \A a \in AttentionNames :
          LET expect == IF graph.pc # "idle" /\ graph.stage[a] = "end"
                        THEN graph.fed + Len(graph.in_token) ELSE graph.fed
          IN  /\ graph.kv[a].k.m_store_id = expect
              /\ graph.kv[a].v.m_store_id = expect
    /\ (graph.pc = "finish" /\ graph.honest) =>
          \A a \in AttentionNames :
              graph.kv[a].k.m_store_id = graph.nr_past + Len(graph.in_token)

\* Two passes of different batch sizes have completed without a reset.
W3_TwoBatches ==
    /\ graph.pc = "idle" /\ graph.passes = 2 /\ graph.fed = NCtx
    /\ Len(graph.in_token) = 1
    /\ \A a \in AttentionNames : graph.kv[a].k.m_store_id = NCtx

\* C4: no cache length ever exceeds the context length its KvStorage was
\* constructed with.
C4_CacheWithinCapacity ==
    \A a \in AttentionNames :
        /\ graph.kv[a].k.m_store_id <= graph.kv[a].k.shape[1]
        /\ graph.kv[a].v.m_store_id <= graph.kv[a].v.shape[1]
        /\ graph.kv[a].k.shape[1] = NCtx /\ graph.kv[a].v.shape[1] = NCtx

\* A call that passed the entry check was stopped by an attention
\* operator's pre_execute because its cache had no room for the batch.
W4_OverflowStopped ==
    /\ graph.pc = "fatal"
    /\ graph.nr_past + Len(graph.in_token) <= n_ctx
    /\ \E a \in AttentionNames :
          /\ graph.stage[a] = "pre"
          /\ graph.kv[a].k.m_store_id + Len(graph.in_token) > NCtx

\* C5: a call with nr_past + token count above the context length is fatal
\* and never completes; a call whose nr_past is the running total and whose
\* new total stays within the context length is never fatal and can always
\* take its next step.
C5_ContextLengthPrecondition ==
    /\ graph.nr_past + Len(graph.in_token) > n_ctx => graph.pc = "fatal"
    /\ (graph.honest /\ graph.nr_past + Len(graph.in_token) <= n_ctx) =>
          /\ graph.pc # "fatal"
          /\ InPass(graph) => ENABLED Next

\* After a completed pass, a call with the right nr_past and a batch that
\* does not fit has ended fatally.
W5_TooLongCallFatal ==
    /\ graph.pc = "fatal" /\ graph.passes = 1 /\ graph.honest
    /\ graph.nr_past + Len(graph.in_token) > n_ctx

\* C6: in every pass each operator goes through deduce_output_shape,
\* pre_execute, execute, end_execute in this order: its stage only changes
\* along that chain, or back to the start when a new call begins.
C6_StageOrder ==
    [][\A o \in OprNames :
          graph'.stage[o] # graph.stage[o] =>
              \/ graph'.stage[o] = "none" /\ graph.pc = "idle"
              \/ <<graph.stage[o], graph'.stage[o]>> \in
                    {<<"none", "deduced">>, <<"deduced", "pre">>,
                     <<"pre", "exec">>, <<"exec", "end">>}]_vars

\* In a second pass an operator has completed all four stages.
W6_SecondPassStages ==
    /\ graph.passes = 1 /\ InPass(graph)
    /\ \E o \in OprNames : graph.stage[o] = "end"

\* C7: operators start pre_execute in the order they were constructed
\* (operators within a module, modules within the graph), and while one is
\* between pre_execute and end_execute all earlier ones have finished
\* end_execute and no later one has started.
C7_DeclarationOrder ==
    /\ Len(graph.order) <= Len(DeclaredNames)
    /\ graph.order = SubSeq(DeclaredNames, 1, Len(graph.order))
    /\ \A i \in 1..Len(DeclaredNames) :
          graph.stage[DeclaredNames[i]] \in {"pre", "exec"} =>
              /\ \A j \in 1..(i - 1) : graph.stage[DeclaredNames[j]] = "end"
              /\ \A j \in (i + 1)..Len(DeclaredNames) :
                    graph.stage[DeclaredNames[j]] = "deduced"

\* The output projection of an attention module has executed, and not yet
\* finished, after the attention operator of the same module has finished.
W7_ProjectionAfterAttention ==
    \E i \in 1..Len(m_modules) :
        /\ m_modules[i].kind = "AttentionModule"
        /\ graph.pc = "end"
        /\ graph.stage[m_modules[i].m_attention_op] = "end"
        /\ graph.stage[m_modules[i].m_attention_op \o <<".wo">>] = "exec"

\* C8: no step of the graph takes a materialized weight tensor back to the
\* released state.
C8_WeightsStayMaterialized ==
    [][\A w \in Weights :
          graph.m_state[w] = "Own" => graph'.m_state[w] = "Own"]_vars

\* An attention operator has finished end_execute, which recalls its
\* weights, and they are still materialized.
W8_AttentionWeightsKept ==
    \E a \in AttentionNames :
        /\ graph.pc = "pre" /\ graph.stage[a] = "end"
        /\ \A w \in {a \o <<".wq.weight">>, a \o <<".wk.weight">>, a \o <<".wv.weight">>} :
              graph.m_state[w] = "Own"

\* C9: Graph.reset_ctx between passes sets every K and V cache length to
\* zero and changes nothing else: capacity, allocation and rows of the
\* caches, and every tensor of every module, stay as they were.
IsResetStep ==
    graph.pc = "idle" /\ graph'.pc = "idle" /\ calls' = calls /\ graph'.life = graph.life

C9_ResetOnlyClearsLengths ==
    [][IsResetStep =>
          /\ \A a \in AttentionNames :
                /\ graph'.kv[a].k = [graph.kv[a].k EXCEPT !.m_store_id = 0]
                /\ graph'.kv[a].v = [graph.kv[a].v EXCEPT !.m_store_id = 0]
          /\ graph'.m_state = graph.m_state
          /\ graph'.m_shape = graph.m_shape
          /\ graph'.m_data = graph.m_data
          /\ graph'.m_cur_count = graph.m_cur_count
          /\ graph'.logist = graph.logist]_vars

\* The context has been reset after a pass: the lengths are zero and the
\* rows written by that pass are still in the buffers.
W9_ResetAfterPass ==
    /\ graph.pc = "idle" /\ graph.passes = 0 /\ calls = 1
    /\ \A a \in AttentionNames :
          /\ graph.kv[a].k.m_store_id = 0 /\ graph.kv[a].v.m_store_id = 0
          /\ graph.kv[a].k.allocated
          /\ graph.kv[a].k.rows[1] # 0

\* C10: the first call with nr_past = 0 after a reset runs exactly as on a
\* freshly built graph: both are at the same position throughout, and when
\* the call has returned they agree on the logits, the cache lengths, the
\* cache rows up to the length and every tensor's user count.
ValidRows(st) == SubSeq(st.rows, 1, st.m_store_id)

C10_ResetEqualsFresh ==
    /\ (graph.passes = 0 /\ graph.pc # "idle" /\ graph.nr_past = 0) =>
          fresh.pc = graph.pc
    /\ (graph.passes = 1 /\ graph.pc = "idle" /\ graph.nr_past = 0) =>
          /\ fresh.pc = "idle"
          /\ fresh.logist = graph.logist
          /\ fresh.m_cur_count = graph.m_cur_count
          /\ \A a \in AttentionNames :
                /\ fresh.kv[a].k.m_store_id = graph.kv[a].k.m_store_id
                /\ fresh.kv[a].v.m_store_id = graph.kv[a].v.m_store_id
                /\ ValidRows(fresh.kv[a].k) = ValidRows(graph.kv[a].k)
                /\ ValidRows(fresh.kv[a].v) = ValidRows(graph.kv[a].v)

\* A graph that ran a pass, was reset and ran a shorter pass with
\* nr_past = 0: it agrees with the fresh graph although its buffers still
\* hold rows of the first pass.
W10_ResetGraphRanAgain ==
    /\ graph.pc = "idle" /\ graph.passes = 1 /\ calls = 2 /\ graph.nr_past = 0
    /\ graph.logist # <<>>
    /\ \E a \in AttentionNames : graph.kv[a].k.rows # fresh.kv[a].k.rows

\* C11: Graph.execute is accepted only once the weights are loaded and the
\* workspace is sized; the driver's state only moves forward, uninitialized,
\* weights-loaded, ready, executing, and stays executing; the one other
\* transition, reset_ctx, leaves that state alone and reaches the attention
\* operator of every attention module (the other modules' reset_ctx is empty).
C11_DriverStates ==
    [][/\ graph'.life # graph.life =>
             <<graph.life, graph'.life>> \in
                 {<<"uninitialized", "weights-loaded">>, <<"weights-loaded", "ready">>,
                  <<"ready", "executing">>}
       /\ (graph.pc = "idle" /\ graph'.pc # "idle") =>
             graph.life \in {"ready", "executing"}
       /\ graph'.pc # "idle" => graph'.life = "executing"
       /\ IsResetStep =>
             \A i \in 1..Len(m_modules) :
                 m_modules[i].kind = "AttentionModule" =>
                     /\ graph'.kv[m_modules[i].m_attention_op].k.m_store_id = 0
                     /\ graph'.kv[m_modules[i].m_attention_op].v.m_store_id = 0]_vars

\* The graph went through loading and sizing, ran a pass and was reset: it
\* is still in the executing state, with every cache empty.
W11_ResetWhileExecuting ==
    /\ graph.life = "executing" /\ graph.pc = "idle"
    /\ calls = 1 /\ graph.passes = 0 /\ graph.logist # <<>>
    /\ \A a \in AttentionNames : graph.kv[a].k.m_store_id = 0

\* C12: the size Graph.get_workspace_in_byte reports is the need of one of
\* the graph's operators and at least the need of each of them; operators
\* that do not override get_workspace_in_byte need 0. Shapes change only
\* during shape deduction, so the size is looked at between calls and at
\* every point of the deduction.
C12_WorkspaceIsMaximum ==
    graph.pc \in {"idle", "deduce", "feed"} =>
    LET total == Graph_get_workspace_in_byte(graph, m_modules, 1, 0)
    IN  /\ \A i \in 1..Len(DeclaredOprs) :
              /\ get_workspace_in_byte(graph, DeclaredOprs[i]) <= total
              /\ DeclaredOprs[i].kind \notin {"MatMul", "MatMulLast", "Attention"} =>
                    get_workspace_in_byte(graph, DeclaredOprs[i]) = 0
        /\ \E i \in 1..Len(DeclaredOprs) :
              get_workspace_in_byte(graph, DeclaredOprs[i]) = total

\* Once the shapes of a batch of the greatest length are deduced, the
\* reported size is the need of an operator in the middle of the graph; the
\* last operator of the last module needs less, but not nothing.
W12_LargestNeedInside ==
    /\ graph.pc = "feed" /\ Len(graph.in_token) = MaxBatch
    /\ LET total == Graph_get_workspace_in_byte(graph, m_modules, 1, 0)
           last  == get_workspace_in_byte(graph, DeclaredOprs[Len(DeclaredOprs)])
       IN  0 < last /\ last < total

\* ----------------------------------------------- claims about one operator
Wildcards(target) == Cardinality({i \in 1..Len(target) : target[i] = -1})

\* The product of the explicit (non-wildcard) dimensions of a target.
RECURSIVE ExplicitProduct(_, _)
ExplicitProduct(target, i) ==
    IF i > Len(target) THEN 1
    ELSE (IF target[i] = -1 THEN 1 ELSE target[i]) * ExplicitProduct(target, i + 1)

\* A Reshape whose deduce_output_shape has been called once.
ReshapeDeduced == probe.phase = "once" /\ probe.op.kind = "Reshape"

\* C13: a Reshape target with no wildcard whose dimension product is the
\* input's element count is accepted and becomes the output shape, and a
\* target with one wildcard whose explicit dimensions divide the element
\* count is accepted too.
C13_AtMostOneWildcardAccepted ==
    ReshapeDeduced =>
        LET target == probe.op.m_target_shape
            count  == ProductFrom(probe.before.m_shape[ProbeIn], 1)
        IN  /\ (Wildcards(target) = 0 /\ ExplicitProduct(target, 1) = count) =>
                  /\ probe.s.pc # "fatal"
                  /\ probe.s.m_shape[probe.op.m_outputs[1]] = target
            /\ (Wildcards(target) = 1 /\ count % ExplicitProduct(target, 1) = 0) =>
                  probe.s.pc # "fatal"

\* C14: for a Reshape target with exactly one wildcard whose explicit
\* dimensions (all positive) divide the input's element count,
\* deduce_output_shape succeeds, keeps the explicit dimensions, puts the
\* element count divided by their product in place of the wildcard, and the
\* product of the output dimensions is the element count.
C14_WildcardSolved ==
    ReshapeDeduced =>
        LET target == probe.op.m_target_shape
            count  == ProductFrom(probe.before.m_shape[ProbeIn], 1)
            out    == probe.s.m_shape[probe.op.m_outputs[1]]
        IN  (Wildcards(target) = 1 /\ count % ExplicitProduct(target, 1) = 0) =>
                /\ probe.s.pc # "fatal"
                /\ out = [i \in 1..Len(target) |->
                             IF target[i] = -1 THEN count \div ExplicitProduct(target, 1)
                             ELSE target[i]]
                /\ ProductFrom(out, 1) = count

\* Target [-1, 4] on an input of 12 elements has given [3, 4].
W14_TwelveByFour ==
    /\ ReshapeDeduced
    /\ probe.op.m_target_shape = <<-1, 4>>
    /\ ProductFrom(probe.before.m_shape[ProbeIn], 1) = 12
    /\ probe.s.m_shape[probe.op.m_outputs[1]] = <<3, 4>>

\* C15: for a Reshape target with two or more wildcards, or whose explicit
\* dimensions do not divide the input's element count, deduce_output_shape
\* ends in the fatal state and the output tensor keeps the shape and dtype
\* it had.
C15_ReshapeRejects ==
    ReshapeDeduced =>
        LET target == probe.op.m_target_shape
            count  == ProductFrom(probe.before.m_shape[ProbeIn], 1)
            out    == probe.op.m_outputs[1]
        IN  (Wildcards(target) >= 2 \/ count % ExplicitProduct(target, 1) # 0) =>
                /\ probe.s.pc = "fatal"
                /\ probe.s.m_shape[out] = probe.before.m_shape[out]
                /\ probe.s.m_dtype[out] = probe.before.m_dtype[out]

\* A target with two wildcards, whose explicit dimension divides the
\* element count, was rejected and the output has no shape.
W15_TwoWildcardsRejected ==
    /\ ReshapeDeduced
    /\ Wildcards(probe.op.m_target_shape) = 2 /\ Len(probe.op.m_target_shape) = 3
    /\ ProductFrom(probe.before.m_shape[ProbeIn], 1)
          % ExplicitProduct(probe.op.m_target_shape, 1) = 0
    /\ probe.s.pc = "fatal"
    /\ probe.s.m_shape[probe.op.m_outputs[1]] = <<>>

\* An operator of the given kind whose deduce_output_shape has been called once.
Deduced(kind) == probe.phase = "once" /\ probe.op.kind = kind

\* C16 as stated: for a MatMul over an input of any rank (two or more
\* dimensions here) and a weight [N, K], the output shape is [M, N] with M
\* the first dimension of the input, also when the weight is stored packed.
C16_LeadingDimensionAnyRank ==
    Deduced("MatMul") =>
        probe.s.m_shape[probe.op.m_outputs[1]] =
            << probe.before.m_shape[ProbeIn][1], probe.op.wshape[1] >>

\* C16 amended: the output shape is [M, N] where M is the first dimension
\* of an input of rank 2 and the second dimension of an input of higher
\* rank; N is the weight's row count, also when the weight is stored packed
\* as [N / PACK_SIZE, K].
C16_RowsFromRank ==
    Deduced("MatMul") =>
        LET input_shape == probe.before.m_shape[ProbeIn]
        IN  /\ probe.s.pc # "fatal"
            /\ probe.op.m_weight_packed =>
                  probe.before.m_shape[probe.op.m_weights[1]][1] * PACK_SIZE
                      = probe.op.wshape[1]
            /\ Len(input_shape) = 2 =>
                  probe.s.m_shape[probe.op.m_outputs[1]]
                      = << input_shape[1], probe.op.wshape[1] >>
            /\ Len(input_shape) >= 3 =>
                  probe.s.m_shape[probe.op.m_outputs[1]]
                      = << input_shape[2], probe.op.wshape[1] >>

\* A MatMul with a packed weight over an input of rank 3 whose first two
\* dimensions differ has taken M from the second.
W16_RankThreePacked ==
    /\ Deduced("MatMul") /\ probe.op.m_weight_packed
    /\ Len(probe.before.m_shape[ProbeIn]) = 3
    /\ probe.before.m_shape[ProbeIn][1] # probe.before.m_shape[ProbeIn][2]
    /\ probe.s.m_shape[probe.op.m_outputs[1]]
          = << probe.before.m_shape[ProbeIn][2], 2 * PACK_SIZE >>

\* C17: for MatMulLast with weight shape [N, K] the output shape is [1, N]
\* for every input shape.
C17_LastTokenOnly ==
    Deduced("MatMulLast") =>
        /\ probe.s.pc # "fatal"
        /\ probe.s.m_shape[probe.op.m_outputs[1]] = << 1, probe.op.wshape[1] >>

\* A MatMulLast over an input with more than one row has given one row.
W17_ManyRowsOneOut ==
    /\ Deduced("MatMulLast")
    /\ Len(probe.before.m_shape[ProbeIn]) = 2
    /\ probe.before.m_shape[ProbeIn][1] = MaxDim
    /\ probe.s.m_shape[probe.op.m_outputs[1]] = << 1, 2 * PACK_SIZE >>

\* The projection weights of an operator, by the names its constructor
\* gives them: the weight (not the bias) of a MatMul, the fused QKV weight
\* or the Q, K and V weights of an attention operator.
ProjectionWeights(op) ==
    CASE op.kind = "MatMul"    -> {op.name \o <<".weight">>}
      [] op.kind = "Attention" ->
            IF op.m_fused_weights
            THEN {op.name \o <<".wqkv.weight">>}
            ELSE {op.name \o <<".wq.weight">>, op.name \o <<".wk.weight">>,
                  op.name \o <<".wv.weight">>}
      [] OTHER                 -> {}

\* C18: need_preprocess_weight(tensor) is true exactly when the tensor's
\* dtype is Int4, its leading dimension is a multiple of PACK_SIZE, the
\* kernel supports MatmulInt4Reorder and the tensor is a projection weight
\* of the operator; so it is false for every tensor on MatMulLast and on
\* operators that do not override it.
C18_PreprocessExactlyWhen ==
    probe.phase = "asked" =>
        /\ probe.answer =
              /\ probe.s.m_dtype[probe.asked] = "Int4"
              /\ Len(probe.s.m_shape[probe.asked]) >= 1
              /\ probe.s.m_shape[probe.asked][1] % PACK_SIZE = 0
              /\ probe.optimized
              /\ probe.asked \in ProjectionWeights(probe.op)
        /\ probe.op.kind \notin {"MatMul", "Attention"} => ~probe.answer

\* The K weight of an attention operator without fused weights is to be
\* preprocessed.
W18_KeyWeightReordered ==
    /\ probe.phase = "asked" /\ probe.answer
    /\ probe.op.kind = "Attention" /\ ~probe.op.m_fused_weights
    /\ probe.asked = ProbeName \o <<".wk.weight">>

\* The state s differs from the state b at most in the shape and dtype of
\* the tensor out.
OnlyShapeOf(out, s, b) ==
    /\ s.pc = b.pc
    /\ s.m_cur_count = b.m_cur_count
    /\ s.m_state = b.m_state
    /\ s.m_data = b.m_data
    /\ \A t \in DOMAIN b.m_shape :
          t # out => s.m_shape[t] = b.m_shape[t] /\ s.m_dtype[t] = b.m_dtype[t]

\* C19: for every operator kind a call of deduce_output_shape changes no
\* state other than the shape and dtype of the output tensor, and a second
\* call with unchanged inputs, weights and parameters leaves the output
\* shape (and dtype) as the first call set it.
C19_DeduceIdempotent ==
    /\ (probe.phase \in {"once", "twice"} /\ probe.s.pc # "fatal") =>
          OnlyShapeOf(probe.op.m_outputs[1], probe.s, probe.before)
    /\ probe.phase = "twice" =>
          /\ probe.s.pc # "fatal"
          /\ probe.s.m_shape[probe.op.m_outputs[1]]
                = probe.before.m_shape[probe.op.m_outputs[1]]
          /\ probe.s.m_dtype[probe.op.m_outputs[1]]
                = probe.before.m_dtype[probe.op.m_outputs[1]]

\* SpliteHalfActiveMul has been deduced twice over an input with MaxDim
\* columns: the output has half of them, the input all of them.
W19_HalvedOnce ==
    /\ probe.phase = "twice" /\ probe.op.kind = "SpliteHalfActiveMul"
    /\ probe.s.m_shape[ProbeIn] = <<MaxDim, MaxDim>>
    /\ probe.s.m_shape[probe.op.m_outputs[1]] = <<MaxDim, MaxDim \div 2>>

\* The materialization state and user count of every tensor and the length
\* of every cache are the same in s and t.
NoBufferTouched(s, t) ==
    /\ t.m_state = s.m_state
    /\ t.m_cur_count = s.m_cur_count
    /\ \A a \in AttentionNames :
          /\ t.kv[a].k.m_store_id = s.kv[a].k.m_store_id
          /\ t.kv[a].v.m_store_id = s.kv[a].v.m_store_id

\* C20: from the start of a Graph::execute call up to and including a
\* failing shape deduction, no step changes a tensor's materialization
\* state, a tensor's user count or a cache length: at the failure they are
\* what they were when the call started.
C20_FailureBeforeBuffers ==
    [][(graph.pc \in {"idle", "deduce"} /\ graph'.pc \in {"deduce", "fatal"})
          => NoBufferTouched(graph, graph')]_vars

\* A second call has failed in the shape deduction of the Reshape, after
\* other operators were deduced and none was run, with weights materialized
\* and caches filled by the first call.
W20_FailedInSecondCall ==
    /\ graph.pc = "fatal" /\ graph.passes = 1
    /\ graph.nr_past + Len(graph.in_token) <= n_ctx
    /\ \E o \in OprNames : graph.stage[o] = "deduced"
    /\ \A o \in OprNames : graph.stage[o] \in {"none", "deduced"}
    /\ \E t \in Tensors : graph.m_state[t] = "Own"
    /\ \E a \in AttentionNames : graph.kv[a].k.m_store_id > 0

\* The step is the given stage of the attention operator a.
AttentionStage(pc, a) ==
    graph.pc = pc /\ CurOpr(graph).name = a /\ graph' # graph

\* The state s with every row of a's caches from position L + 1 on replaced
\* by another value.
Scrubbed(s, a, L) ==
    [s EXCEPT !.kv[a].k.rows = [p \in DOMAIN @ |-> IF p > L THEN @[p] + 1 ELSE @[p]],
              !.kv[a].v.rows = [p \in DOMAIN @ |-> IF p > L THEN @[p] + 1 ELSE @[p]]]

\* C21: in a pass with n new tokens and cache length L at entry, execute
\* writes the cache rows L+1..L+n and no other, leaves the length at L, and
\* its result and the rows it wrote do not depend on what the cache held
\* at the positions after L before the call (it reads the rows up to L and
\* the rows it has just written); end_execute advances the length to L + n
\* and leaves the rows; the only other change of a length is reset_ctx.
\* So the rows up to the length were all written since the last reset_ctx
\* and nothing else is read.
C21_CacheWindow ==
    [][\A a \in AttentionNames :
          LET L  == graph.kv[a].k.m_store_id
              n  == Len(graph.in_token)
              op == CurOpr(graph)
          IN  /\ AttentionStage("exec", a) =>
                    /\ graph'.kv[a].k.m_store_id = L /\ graph'.kv[a].v.m_store_id = L
                    /\ \A p \in 1..NCtx : (p <= L \/ p > L + n) =>
                          /\ graph'.kv[a].k.rows[p] = graph.kv[a].k.rows[p]
                          /\ graph'.kv[a].v.rows[p] = graph.kv[a].v.rows[p]
                    /\ LET other == execute(Scrubbed(graph, a, L), op, graph.nr_past)
                       IN  /\ graph'.m_data[op.m_outputs[1]] = other.m_data[op.m_outputs[1]]
                           /\ \A p \in (L + 1)..(L + n) :
                                 /\ graph'.kv[a].k.rows[p] = other.kv[a].k.rows[p]
                                 /\ graph'.kv[a].v.rows[p] = other.kv[a].v.rows[p]
              /\ AttentionStage("end", a) =>
                    /\ graph'.kv[a].k = [graph.kv[a].k EXCEPT !.m_store_id = L + n]
                    /\ graph'.kv[a].v = [graph.kv[a].v EXCEPT !.m_store_id = L + n]
              /\ ~(AttentionStage("exec", a) \/ AttentionStage("end", a) \/ IsResetStep) =>
                    graph'.kv[a] = graph.kv[a]]_vars

\* After a pass of MaxBatch tokens and a reset, the first attention
\* operator has run on one token: the rows after the first still hold values
\* of the earlier pass.
W21_StaleRowsBeyondWindow ==
    /\ graph.pc = "end" /\ IsAttention(CurOpr(graph))
    /\ Len(graph.in_token) = 1
    /\ graph.kv[CurOpr(graph).name].k.m_store_id = 0
    /\ graph.kv[CurOpr(graph).name].k.rows[1] # 0
    /\ graph.kv[CurOpr(graph).name].k.rows[MaxBatch] # 0

\* The operators that read the tensor t.
Readers(t) == {o \in Range(DeclaredOprs) : t \in Range(o.m_inputs)}

\* C22: whenever an operator's execute stage runs, in any pass, each of its
\* inputs and its output is materialized; a tensor that is not shared is
\* released only by an end_execute after which every operator that reads it
\* has finished end_execute in the pass, and it is materialized again only
\* by the pre_execute of its producer, which finds its user count at 0.
C22_BuffersLiveWhileUsed ==
    /\ [](graph.pc = "exec" =>
             \A t \in Range(CurOpr(graph).m_inputs) \cup Range(CurOpr(graph).m_outputs) :
                 graph.m_state[t] = "Own")
    /\ [][\A t \in Tensors : ~m_shared[t] =>
             /\ (graph.m_state[t] = "Own" /\ graph'.m_state[t] = "OutSide") =>
                   /\ graph.pc = "end"
                   /\ t \in Range(CurOpr(graph).m_inputs)
                   /\ \A o \in Readers(t) : graph'.stage[o.name] = "end"
             /\ (graph.m_state[t] = "OutSide" /\ graph'.m_state[t] = "Own") =>
                   /\ graph.pc = "pre"
                   /\ t \in Range(CurOpr(graph).m_outputs)
                   /\ graph.m_cur_count[t] = 0]_vars

\* In a second pass an operator with two inputs runs; one of its inputs has
\* two readers of which one has finished, and is still materialized.
W22_SecondReaderStillServed ==
    /\ graph.passes = 1 /\ graph.pc = "exec"
    /\ Len(CurOpr(graph).m_inputs) = 2
    /\ \A t \in Range(CurOpr(graph).m_inputs) \cup Range(CurOpr(graph).m_outputs) :
          graph.m_state[t] = "Own"
    /\ \E t \in Range(CurOpr(graph).m_inputs) :
          /\ ~m_shared[t] /\ m_usr_count[t] = 2 /\ graph.m_cur_count[t] = 1

\* C23: in every state the K cache and the V cache of an attention operator
\* have the same logical length, and every step that changes one changes
\* the other by the same amount.
C23_KeyValueInStep ==
    /\ [](\A a \in AttentionNames :
             graph.kv[a].k.m_store_id = graph.kv[a].v.m_store_id)
    /\ [][\A a \in AttentionNames :
             graph'.kv[a].k.m_store_id - graph.kv[a].k.m_store_id
                 = graph'.kv[a].v.m_store_id - graph.kv[a].v.m_store_id]_vars

\* Two passes have gone through every attention operator: both caches of
\* each hold the tokens of both.
W23_BothGrewTwice ==
    /\ graph.passes = 2 /\ graph.pc = "idle"
    /\ \A a \in AttentionNames :
          /\ graph.kv[a].k.m_store_id = graph.fed
          /\ graph.kv[a].v.m_store_id = graph.fed
          /\ graph.fed > MaxBatch

\* A multi-query-group attention module has been constructed from an
\* embedding width that its head count divides.
BuiltDivisible == probe.phase = "built" /\ Mod(probe.embd, probe.head) = 0

\* E * G / H, exactly.
ExactCacheWidth ==
    Div(Mul(Widen(probe.embd, ExactLimbs), probe.n_rot), probe.head)

\* C24 as stated: for embedding width E divisible by head count H and group
\* count G, the K and V cache width is E*G/H and the leading dimension of
\* the fused QKV weight is E plus twice that width; construction aborts
\* when fused weights are not requested.
C24_GroupedWidths ==
    BuiltDivisible =>
        IF ~probe.fused_weights THEN probe.op.pc = "fatal"
        ELSE /\ probe.op.pc # "fatal"
             /\ probe.op.m_kstorage[2] = ExactCacheWidth
             /\ probe.op.m_vstorage[2] = ExactCacheWidth
             /\ probe.op.wshape[1]
                   = Add(Widen(probe.embd, ExactLimbs), Mul(ExactCacheWidth, 2))

\* With 8192 heads, 8192 groups and an embedding width of 2^18 the product
\* G * 2 * E is 2^32: the fused weight has E rows, while Q, K and V together
\* need three times as many.
W24_ProductWrapped ==
    /\ BuiltDivisible /\ probe.fused_weights
    /\ probe.embd = <<0, 4>> /\ probe.head = 8192 /\ probe.n_rot = 8192
    /\ probe.op.m_kstorage[2] = Widen(probe.embd, ExactLimbs)
    /\ probe.op.wshape[1] = Widen(probe.embd, ExactLimbs)

====
